---- MODULE Spec2Model ----
(***************************************************************************)
(* ChatPulse frontend: the client-side authentication and session          *)
(* lifecycle.  The state is the AuthProvider's React state (user,          *)
(* loading), the two pieces of ambient state it writes (the 'token' key of *)
(* localStorage and the Authorization default header of the axios          *)
(* instance), the router location, and the HTTP requests in flight.        *)
(*                                                                         *)
(* JavaScript is single-threaded: one action is one macrotask, i.e. an     *)
(* event handler or effect up to its first await, or the arrival of a      *)
(* response together with every continuation that runs from it up to the   *)
(* next await (the promise continuations are microtasks, nothing           *)
(* interleaves with them).  React 18 (createRoot) batches the state        *)
(* updates of one such task into one render.                               *)
(***************************************************************************)
EXTENDS Naturals, FiniteSets, Bags

VARIABLES
    storedToken,    \* localStorage 'token'
    Authorization,  \* api.defaults.headers.common['Authorization']
    user,           \* AuthProvider useState(null)
    loading,        \* AuthProvider useState(true)
    boot,           \* the AuthProvider mount effect: "pending" or "done"
    path,           \* router location pathname
    query,          \* the code parameter of the location's query string
    formLoading,    \* useState(false) of the mounted Login form
    cbPending,      \* GoogleCallback is mounted and its effect has not run yet
    inflight,       \* bag of HTTP requests awaiting their response
    loads,          \* number of page loads after the first
    ev,             \* what the last step did (operation, result, toast)
    logoutTrail,    \* history: "logout" right after logout(), "reload" after a reload that follows it
    loginCred,      \* history: credential of the session the last resolved login left in the store
    reloadCred,     \* history: loginCred if the page was reloaded with it still persisted
    resetUsed,      \* backend: the password-reset tokens already consumed
    dbl             \* history: two overlapping login calls with one email, and how far they are

vars == <<storedToken, Authorization, user, loading, boot, path, query,
          formLoading, cbPending, inflight, loads, ev,
          logoutTrail, loginCred, reloadCred, resetUsed, dbl>>

-----------------------------------------------------------------------------
(* Bounds *)

MaxInFlight == 2
MaxLoads == 2
TokensPerAccount == 1
MaxCalls == 1

-----------------------------------------------------------------------------
(* Values *)

Emails == {"u@x.com", "v@x.com"}
NoEmail == "none"

\* A bearer credential issued by the backend to one account.
NoToken == <<NoEmail, 0>>
Tokens == Emails \X (1 .. TokensPerAccount)
Owner(tok) == tok[1]

\* response.data of GET /auth/me: the profile of the credential's account.
NoUser == [email |-> NoEmail]
ProfileOf(tok) == [email |-> Owner(tok)]

Codes == {"abc"}
NoCode == "none"

NoDetail == "none"
Details == {NoDetail, "detail"}

PublicPaths == {"/login", "/register", "/auth/callback"}
ProtectedPaths == {"/dashboard"}
Paths == PublicPaths \cup ProtectedPaths

NoToast == "none"

\* error.response?.data?.detail || fallback
ErrorOr(detail, fallback) == IF detail # NoDetail THEN detail ELSE fallback

-----------------------------------------------------------------------------
(* Routing: App *)

\* Mutant: App without the `if (loading)` early return.
ElementAt_noGate(l, u, p) ==
    IF p = "/login" THEN (IF u = NoUser THEN "Login" ELSE "Navigate")
    ELSE IF p = "/register" THEN (IF u = NoUser THEN "Register" ELSE "Navigate")
    ELSE IF p = "/auth/callback" THEN "GoogleCallback"
    ELSE (IF u # NoUser THEN "Layout" ELSE "Navigate")

\* The element App renders for a location.
ElementAt(l, u, p) ==
    IF l THEN "Spinner"
    ELSE IF p = "/login" THEN (IF u = NoUser THEN "Login" ELSE "Navigate")
    ELSE IF p = "/register" THEN (IF u = NoUser THEN "Register" ELSE "Navigate")
    ELSE IF p = "/auth/callback" THEN "GoogleCallback"
    ELSE (IF u # NoUser THEN "Layout" ELSE "Navigate")

\* Where the <Navigate> elements of App send a location.
RouteOf(u, p) ==
    IF p \in {"/login", "/register"} /\ u # NoUser THEN "/dashboard"
    ELSE IF p \in ProtectedPaths /\ u = NoUser THEN "/login"
    ELSE p

\* The location after the render that follows a step: nothing is routed
\* while the startup gate is closed.
Landing(l, u, p) == IF l THEN p ELSE RouteOf(u, p)

View == ElementAt(loading, user, path)

\* GoogleCallback's effect (deps: searchParams, navigate,
\* handleGoogleCallback) runs after the render that follows a step when the
\* page is mounted by that render, or when AuthProvider has rendered again:
\* the context value is built anew on every render of the provider, so
\* handleGoogleCallback is a new function each time.
EffectRuns(l2, u2, p2, rendered) ==
    /\ ElementAt(l2, u2, p2) = "GoogleCallback"
    /\ View # "GoogleCallback" \/ rendered

-----------------------------------------------------------------------------
(* Requests *)

\* hdr is the Authorization header the request was sent with, kept for the
\* one endpoint that reads it (GET /auth/me).
Request(flow, url, hdr, email, code, live) ==
    [flow |-> flow, url |-> url, hdr |-> hdr, email |-> email,
     code |-> code, live |-> live]

Add(bag, r) == bag (+) SetToBag({r})
Remove(bag, r) == bag (-) SetToBag({r})

\* The components that issued the requests are unmounted: their setState
\* calls no longer reach a mounted form.
Orphan(bag) ==
    LET dead(r) == [r EXCEPT !.live = FALSE]
        S == {dead(r) : r \in BagToSet(bag)}
    IN  [s \in S |-> CopiesIn(s, bag) + CopiesIn([s EXCEPT !.live = TRUE], bag)]

FlowRequests == {r \in BagToSet(inflight) : r.flow \in {"boot", "login", "oauth"}}

\* What a step did.  email is the account the step was about (the one
\* logged in, or the one the identity provider vouched for).  success and error are the fields of the value the
\* flow function returned ("none" where it returned nothing yet), detail and
\* flag are what the backend answered, is_new_user what the function
\* returned, arg the function's argument, reached whether the backend
\* answered at all, wasOut whether logout was called on a store that held
\* nothing.
Event(op, flow, ok, success, toast, net, email) ==
    [op |-> op, flow |-> flow, ok |-> ok, success |-> success,
     toast |-> toast, net |-> net, email |-> email,
     error |-> "none", detail |-> NoDetail, reached |-> TRUE,
     flag |-> FALSE, is_new_user |-> FALSE, arg |-> NoCode, wasOut |-> FALSE]

NoDbl == [phase |-> "none", email |-> NoEmail, second |-> "none"]

Init ==
    /\ storedToken = NoToken
    /\ Authorization = NoToken
    /\ user = NoUser
    /\ loading = TRUE
    /\ boot = "pending"
    /\ path \in Paths
    /\ query \in Codes \cup {NoCode}
    /\ formLoading = FALSE
    /\ cbPending = FALSE
    /\ inflight = EmptyBag
    /\ loads = 0
    /\ ev = Event("init", "none", TRUE, "none", NoToast, 0, NoEmail)
    /\ logoutTrail = "none"
    /\ loginCred = NoToken
    /\ reloadCred = NoToken
    /\ resetUsed = {}
    /\ dbl = NoDbl


-----------------------------------------------------------------------------
(* AuthProvider: what each function writes to the store.  A store is the   *)
(* record [token, header, user, loading].                                  *)

Store == [token |-> storedToken, header |-> Authorization,
          user |-> user, loading |-> loading]

\* Mutant: the effect without its else branch.
bootstrap_noElse(token) ==
    IF token # NoToken
    THEN [Store EXCEPT !.header = token]
    ELSE Store

\* Mutant: fetchUser is called before the header is set.
bootstrap_fetchFirst(token) ==
    IF token # NoToken
    THEN Store
    ELSE [Store EXCEPT !.loading = FALSE]

\* useEffect, lines 18-26: the credential read from storage is attached
\* before fetchUser is called; without one the gate opens at once.
bootstrap(token) ==
    IF token # NoToken
    THEN [Store EXCEPT !.header = token]
    ELSE [Store EXCEPT !.loading = FALSE]

\* Mutant: the catch block leaves the header attached.
fetchUser_keepsHeader(ok, hdr) ==
    IF ok
    THEN [Store EXCEPT !.user = ProfileOf(hdr), !.loading = FALSE]
    ELSE [Store EXCEPT !.token = NoToken, !.loading = FALSE]

\* Mutant: the catch block leaves the credential in localStorage.
fetchUser_keepsToken(ok, hdr) ==
    IF ok
    THEN [Store EXCEPT !.user = ProfileOf(hdr), !.loading = FALSE]
    ELSE [Store EXCEPT !.header = NoToken, !.loading = FALSE]

\* Mutant: the response is not published with setUser.
fetchUser_noSetUser(ok, hdr) ==
    IF ok
    THEN [Store EXCEPT !.loading = FALSE]
    ELSE [Store EXCEPT !.token = NoToken, !.header = NoToken, !.loading = FALSE]

\* fetchUser, lines 28-38, from the response onward.
fetchUser(ok, hdr) ==
    IF ok
    THEN [Store EXCEPT !.user = ProfileOf(hdr), !.loading = FALSE]
    ELSE [Store EXCEPT !.token = NoToken, !.header = NoToken, !.loading = FALSE]

\* Mutant: login closes the startup gate while it works.
loginAdopt_showsSpinner(access_token) ==
    [Store EXCEPT !.token = access_token, !.header = access_token,
                  !.loading = TRUE]

\* login, lines 43-46: the credential is persisted and attached.
loginAdopt(access_token) ==
    [Store EXCEPT !.token = access_token, !.header = access_token]

\* login, lines 48-49: fetchUser has settled (it never rejects), so the
\* call resolves to {success: true}.
loginResult(ok) == "true"

\* Mutant: the catch block of login signs the user out.
loginRejected_clears ==
    [Store EXCEPT !.token = NoToken, !.header = NoToken, !.user = NoUser]

\* login, lines 50-55: the catch block only builds the result.
loginRejected == Store

\* Mutant: the profile of the response is not published.
googleAdopt_noSetUser(access_token) ==
    [Store EXCEPT !.token = access_token, !.header = access_token]

\* handleGoogleCallback, lines 76-80.
googleAdopt(access_token) ==
    [Store EXCEPT !.token = access_token, !.header = access_token,
                  !.user = ProfileOf(access_token)]

\* Mutant: the catch block of handleGoogleCallback signs the user out.
googleRejected_clears ==
    [Store EXCEPT !.token = NoToken, !.header = NoToken, !.user = NoUser]

\* handleGoogleCallback, lines 87-92: the catch block only builds the result.
googleRejected == Store

\* Mutant: the returned flag is dropped.
googleResult_notNew(is_new_user) == FALSE

\* handleGoogleCallback, lines 82-86: the is_new_user of the result.
googleResult(is_new_user) == is_new_user

\* Mutant: the exchange is attempted whatever the query string holds.
hasCode_always(code) == TRUE

\* GoogleCallback, lines 13 and 16: `if (code)`.
hasCode(code) == code # NoCode

\* Mutant: a successful exchange only toasts.
callbackTarget_staysOnSuccess(success, p) == IF success THEN p ELSE "/login"

\* Mutant: a failed exchange only toasts.
callbackTarget_staysOnFailure(success, p) == IF success THEN "/dashboard" ELSE p

\* GoogleCallback, lines 19-29: where handleCallback navigates from p.
callbackTarget(success, p) == IF success THEN "/dashboard" ELSE "/login"

\* Mutant: logout puts the provider back into its initial state.
logout_resetsGate ==
    [Store EXCEPT !.token = NoToken, !.header = NoToken, !.user = NoUser,
                  !.loading = TRUE]

\* Mutant: logout leaves the header attached.
logout_keepsHeader ==
    [Store EXCEPT !.token = NoToken, !.user = NoUser]

\* Mutant: logout leaves the credential in localStorage.
logout_keepsToken ==
    [Store EXCEPT !.header = NoToken, !.user = NoUser]

\* logout, lines 202-206.
logout ==
    [Store EXCEPT !.token = NoToken, !.header = NoToken, !.user = NoUser]

\* A page load: module state and React state start afresh, localStorage stays.
freshPage ==
    [Store EXCEPT !.header = NoToken, !.user = NoUser, !.loading = TRUE]

\* Mutant: the form has no finally block.
settled_noFinally(live, fl) == fl

\* finally { setLoading(false) } of Login.onSubmit, handleForgotPassword and
\* Register.onSubmit: it reaches the form only while that form is mounted.
settled(live, fl) == IF live THEN FALSE ELSE fl

\* Mutant: loginWithGoogle reports the redirect it has issued.
loginWithGoogle_returns(redirected) == IF redirected THEN "true" ELSE "false"

\* loginWithGoogle, lines 58-68: the success field of what it returns.
\* After the assignment to window.location.href it returns nothing.
loginWithGoogle(redirected) == IF redirected THEN "undefined" ELSE "false"

\* handleGoogleSignIn, Login.jsx lines 43-55: the toast for a result.
\* `result.success` on undefined throws, which the catch block reports.
googleSignInToast(success) ==
    IF success = "undefined" THEN "Google sign-in failed"
    ELSE IF success = "false" THEN "Google login failed"
    ELSE NoToast

SetStore(s) ==
    /\ storedToken' = s.token
    /\ Authorization' = s.header
    /\ user' = s.user
    /\ loading' = s.loading

\* The session a resolved login left in the store, if it is a whole one.
SessionOf(s) ==
    IF s.token # NoToken /\ s.header = s.token /\ s.user = ProfileOf(s.token)
    THEN s.token ELSE NoToken

\* History of a double login: "one" after a login submitted from the
\* unauthenticated store with nothing in flight, "two" once a second one
\* with the same email, or a callback exchange, overlaps it, "left" when one of the two has resolved,
\* "done" in the state where both have.  second tells whether the
\* overlapping flow is that second login or a callback exchange.  Anything
\* else in between ends it.
DblCalled(email) ==
    IF /\ dbl.phase = "none" /\ inflight = EmptyBag
       /\ storedToken = NoToken /\ Authorization = NoToken /\ user = NoUser
    THEN [phase |-> "one", email |-> email, second |-> "none"]
    ELSE IF dbl.phase = "one" /\ dbl.email = email
    THEN [dbl EXCEPT !.phase = "two", !.second = "login"]
    ELSE NoDbl

\* The flow that overlaps the first login is a callback exchange.
DblExchange ==
    IF dbl.phase = "one"
    THEN [dbl EXCEPT !.phase = "two", !.second = "oauth"]
    ELSE NoDbl

DblResolved ==
    IF dbl.phase = "two" THEN [dbl EXCEPT !.phase = "left"]
    ELSE IF dbl.phase = "left" THEN [dbl EXCEPT !.phase = "done"]
    ELSE NoDbl

DblKept == IF dbl.phase \in {"one", "two", "left"} THEN dbl ELSE NoDbl

NoHistory ==
    /\ logoutTrail' = "none"
    /\ reloadCred' = NoToken
    /\ dbl' = NoDbl
    /\ UNCHANGED <<loginCred, resetUsed>>

-----------------------------------------------------------------------------
(* The functions that only report a result *)

ResetTokens == {"r1"}

\* The functions of lines 95-200: one request, one result, nothing else.
Flows == {"register", "sendVerificationCode", "verifyCode",
          "signupWithVerification", "forgotPassword", "resetPassword",
          "verifyResetToken"}

UrlOf(fn) ==
    CASE fn = "register" -> "/auth/register"
      [] fn = "sendVerificationCode" -> "/auth/send-verification"
      [] fn = "verifyCode" -> "/auth/verify-code"
      [] fn = "signupWithVerification" -> "/auth/signup-with-verification"
      [] fn = "forgotPassword" -> "/auth/forgot-password"
      [] fn = "resetPassword" -> "/auth/reset-password"
      [] fn = "verifyResetToken" -> "/auth/verify-reset-token"

\* The message each catch block falls back to.
Fallback(fn) ==
    CASE fn = "register" -> "Registration failed"
      [] fn = "sendVerificationCode" -> "Failed to send verification code"
      [] fn = "verifyCode" -> "Invalid verification code"
      [] fn = "signupWithVerification" -> "Signup failed"
      [] fn = "forgotPassword" -> "Failed to send reset email"
      [] fn = "resetPassword" -> "Failed to reset password"
      [] fn = "verifyResetToken" -> "Invalid token"

\* The argument a call is followed by: the reset token, for the two
\* functions that send one.
ArgsOf(fn) ==
    IF fn \in {"resetPassword", "verifyResetToken"} THEN ResetTokens ELSE {NoCode}

\* How a request ends: a 2xx response, a response with an error status
\* (axios rejects, error.response is set), or no response at all.
Outcomes == {"2xx", "rejected", "network"}

\* Mutant: no catch block, the rejection of the request reaches the caller.
flowResult_rethrows(outcome) ==
    IF outcome = "2xx" THEN "true"
    ELSE IF outcome = "rejected" THEN "false" ELSE "throw"

\* Mutant: the catch block reports success.
flowResult_alwaysTrue(outcome) == "true"

\* The success field of the returned value: true after the await, false
\* from the catch block.
flowResult(outcome) == IF outcome = "2xx" THEN "true" ELSE "false"

\* Mutant: a successful registration signs the new account in.
flowStore_registerAdopts(fn, outcome) ==
    IF fn = "register" /\ outcome = "2xx"
    THEN [Store EXCEPT !.user = [email |-> "u@x.com"]]
    ELSE Store

\* None of the functions of lines 95-200 touches localStorage, the header
\* or the React state.
flowStore(fn, outcome) == Store

\* Backend: POST /auth/reset-password accepts a token it has not consumed.
resetAccepts(token) == token \notin resetUsed

\* Backend: an accepted reset consumes its token.
resetConsume(fn, outcome, token) ==
    IF fn = "resetPassword" /\ outcome = "2xx"
    THEN resetUsed \cup {token} ELSE resetUsed

-----------------------------------------------------------------------------
(* Steps *)

\* AuthProvider's mount effect (deps []): it runs once per page load, as in
\* a production build.
Bootstrap ==
    /\ boot = "pending"
    /\ LET token == storedToken
           s == bootstrap(token)
       IN  /\ SetStore(s)
           /\ boot' = "done"
           /\ inflight' = IF token # NoToken
                          THEN Add(inflight, Request("boot", "/auth/me", s.header,
                                                     NoEmail, NoCode, FALSE))
                          ELSE inflight
           /\ path' = Landing(s.loading, s.user, path)
           /\ cbPending' = (ElementAt(s.loading, s.user, path') = "GoogleCallback")
           /\ ev' = Event("Bootstrap", "boot", TRUE, "none", NoToast,
                          IF token # NoToken THEN 1 ELSE 0, NoEmail)
    /\ dbl' = NoDbl
    /\ UNCHANGED <<query, formLoading, loads, logoutTrail, loginCred, reloadCred,
                   resetUsed>>

\* The response to GET /auth/me arrives: fetchUser runs to its end; for a
\* login, login returns and Login.onSubmit toasts and navigates.
FetchUserResolve(r, ok) ==
    /\ ~cbPending
    /\ BagIn(r, inflight)
    /\ r.url = "/auth/me"
    /\ ok => r.hdr # NoToken
    /\ LET s == fetchUser(ok, r.hdr)
           isLogin == r.flow = "login"
           success == IF isLogin THEN loginResult(ok) ELSE "none"
           target == IF isLogin /\ success = "true" THEN "/dashboard" ELSE path
       IN  /\ SetStore(s)
           /\ path' = Landing(s.loading, s.user, target)
           /\ cbPending' = EffectRuns(s.loading, s.user, path', ok \/ loading)
           /\ inflight' = IF isLogin THEN Orphan(Remove(inflight, r))
                          ELSE Remove(inflight, r)
           /\ formLoading' = FALSE
           /\ ev' = Event("FetchUserResolve", r.flow, ok, success,
                          IF isLogin
                          THEN (IF success = "true" THEN "Welcome back" ELSE "Login failed")
                          ELSE NoToast,
                          0, r.email)
           /\ loginCred' = IF isLogin /\ success = "true" THEN SessionOf(s) ELSE loginCred
           /\ logoutTrail' = IF isLogin THEN "none" ELSE logoutTrail
           /\ reloadCred' = IF isLogin THEN NoToken ELSE reloadCred
           /\ dbl' = IF isLogin THEN DblResolved ELSE NoDbl
    /\ UNCHANGED <<boot, query, loads, resetUsed>>

\* Login.onSubmit up to the await of POST /auth/login.
LoginSubmit(email) ==
    /\ View = "Login"
    /\ ~cbPending
    /\ ~formLoading
    /\ BagCardinality(inflight) < MaxInFlight
    /\ formLoading' = TRUE
    /\ inflight' = Add(inflight, Request("login", "/auth/login", NoToken,
                                         email, NoCode, TRUE))
    /\ ev' = Event("LoginSubmit", "login", TRUE, "none", NoToast, 1, email)
    /\ dbl' = DblCalled(email)
    /\ logoutTrail' = "none"
    /\ reloadCred' = NoToken
    /\ UNCHANGED <<storedToken, Authorization, user, loading, boot, path, query,
                   cbPending, loads, loginCred, resetUsed>>

\* The response to POST /auth/login arrives.  On success the backend has
\* issued a credential of the account; login adopts it and calls fetchUser.
LoginPostResolve(r, ok, access_token, detail) ==
    /\ ~cbPending
    /\ BagIn(r, inflight)
    /\ r.url = "/auth/login"
    /\ IF ok
       THEN /\ Owner(access_token) = r.email
            /\ detail = NoDetail
            /\ SetStore(loginAdopt(access_token))
            /\ inflight' = Add(Remove(inflight, r),
                               [r EXCEPT !.url = "/auth/me",
                                         !.hdr = loginAdopt(access_token).header])
            /\ formLoading' = formLoading
            /\ ev' = Event("LoginPostResolve", "login", TRUE, "none", NoToast, 1,
                           r.email)
            /\ dbl' = DblKept
       ELSE /\ access_token = NoToken
            /\ inflight' = Remove(inflight, r)
            /\ formLoading' = settled(r.live, formLoading)
            /\ LET error == ErrorOr(detail, "Login failed")
               IN  ev' = [Event("LoginPostResolve", "login", FALSE, "false",
                                error, 0, r.email)
                          EXCEPT !.error = error, !.detail = detail]
            /\ SetStore(loginRejected)
            /\ dbl' = DblResolved
    /\ logoutTrail' = "none"
    /\ reloadCred' = NoToken
    /\ UNCHANGED <<boot, path, query, cbPending, loads, loginCred, resetUsed>>

\* GoogleCallback's effect, up to the await of the exchange.
CallbackEffect ==
    /\ cbPending
    /\ cbPending' = FALSE
    /\ IF hasCode(query)
       THEN /\ inflight' = Add(inflight, Request("oauth", "/auth/google/google/callback",
                                                 NoToken, NoEmail, query, TRUE))
            /\ path' = path
            /\ formLoading' = formLoading
            /\ ev' = Event("CallbackEffect", "oauth", TRUE, "none", NoToast, 1,
                           NoEmail)
       ELSE /\ inflight' = Orphan(inflight)
            /\ path' = Landing(loading, user, callbackTarget(FALSE, path))
            /\ formLoading' = FALSE
            /\ ev' = Event("CallbackEffect", "oauth", FALSE, "none",
                           "Authorization failed", 0, NoEmail)
    /\ dbl' = IF hasCode(query) THEN DblExchange ELSE NoDbl
    /\ logoutTrail' = "none"
    /\ reloadCred' = NoToken
    /\ UNCHANGED <<storedToken, Authorization, user, loading, boot, query, loads,
                   loginCred, resetUsed>>

\* The response of the callback exchange arrives: handleGoogleCallback
\* returns and GoogleCallback toasts and navigates.  A navigation to the
\* location already shown leaves the mounted page as it is.
ExchangeResolve(r, ok, access_token, is_new_user, detail) ==
    /\ ~cbPending
    /\ BagIn(r, inflight)
    /\ r.url = "/auth/google/google/callback"
    /\ LET s == IF ok THEN googleAdopt(access_token) ELSE googleRejected
           target == callbackTarget(ok, path)
           returned == ok /\ googleResult(is_new_user)
           error == IF ok THEN "none"
                    ELSE ErrorOr(detail, "Google authentication failed")
       IN  /\ ok => access_token \in Tokens /\ detail = NoDetail
           /\ ~ok => access_token = NoToken /\ ~is_new_user
           /\ SetStore(s)
           /\ path' = Landing(s.loading, s.user, target)
           /\ cbPending' = EffectRuns(s.loading, s.user, path', ok)
           /\ inflight' = IF path' # path THEN Orphan(Remove(inflight, r))
                          ELSE Remove(inflight, r)
           /\ formLoading' = IF path' # path THEN FALSE ELSE formLoading
           /\ ev' = [Event("ExchangeResolve", "oauth", ok,
                           IF ok THEN "true" ELSE "false",
                           IF ok THEN (IF returned THEN "Welcome to ChatPulse"
                                       ELSE "Welcome back")
                           ELSE error,
                           0, Owner(access_token))
                     EXCEPT !.error = error, !.detail = detail,
                            !.flag = is_new_user, !.is_new_user = returned,
                            !.arg = r.code]
    /\ dbl' = IF dbl.second = "oauth" THEN DblResolved ELSE NoDbl
    /\ logoutTrail' = "none"
    /\ reloadCred' = NoToken
    /\ UNCHANGED <<boot, query, loads, loginCred, resetUsed>>

\* The logout button of Layout.
Logout ==
    /\ View = "Layout"
    /\ ~cbPending
    /\ LET s == logout
       IN  /\ SetStore(s)
           /\ path' = Landing(s.loading, s.user, path)
    /\ inflight' = Orphan(inflight)
    /\ formLoading' = FALSE
    /\ ev' = Event("Logout", "logout", TRUE, "none", NoToast, 0, NoEmail)
    /\ logoutTrail' = "logout"
    /\ loginCred' = NoToken
    /\ reloadCred' = NoToken
    /\ dbl' = NoDbl
    /\ UNCHANGED <<boot, query, cbPending, loads, resetUsed>>

\* The user follows a link or walks the browser history inside the
\* running application.
Navigate(p, q) ==
    /\ ~loading
    /\ ~cbPending
    /\ <<p, q>> # <<path, query>>
    /\ q # NoCode => p = "/auth/callback" /\ BagCardinality(inflight) < MaxInFlight
    /\ path' = Landing(loading, user, p)
    /\ query' = q
    /\ cbPending' = (ElementAt(loading, user, path') = "GoogleCallback")
    /\ inflight' = Orphan(inflight)
    /\ formLoading' = FALSE
    /\ ev' = Event("Navigate", "none", TRUE, "none", NoToast, 0, NoEmail)
    /\ dbl' = IF dbl.phase = "one" THEN dbl ELSE NoDbl
    /\ logoutTrail' = "none"
    /\ reloadCred' = NoToken
    /\ UNCHANGED <<storedToken, Authorization, user, loading, boot, loads,
                   loginCred, resetUsed>>

\* The document is loaded anew (reload, typed address, or the identity
\* provider redirecting back): pending continuations are gone.
PageLoad(p, q) ==
    /\ loads < MaxLoads
    /\ q # NoCode => p = "/auth/callback"
    /\ SetStore(freshPage)
    /\ boot' = "pending"
    /\ path' = p
    /\ query' = q
    /\ formLoading' = FALSE
    /\ cbPending' = FALSE
    /\ inflight' = EmptyBag
    /\ loads' = loads + 1
    /\ ev' = Event("PageLoad", "none", TRUE, "none", NoToast, 0, NoEmail)
    /\ logoutTrail' = IF logoutTrail = "logout" THEN "reload" ELSE "none"
    /\ reloadCred' = IF loginCred # NoToken /\ storedToken = loginCred
                     THEN loginCred ELSE NoToken
    /\ loginCred' = NoToken
    /\ dbl' = NoDbl
    /\ UNCHANGED resetUsed

\* Register.onSubmit up to the await of register().
RegisterSubmit ==
    /\ View = "Register"
    /\ ~cbPending
    /\ ~formLoading
    /\ BagCardinality(inflight) < MaxInFlight
    /\ formLoading' = TRUE
    /\ inflight' = Add(inflight, Request("registerForm", UrlOf("register"),
                                         NoToken, NoEmail, NoCode, TRUE))
    /\ ev' = Event("RegisterSubmit", "register", TRUE, "none", NoToast, 1, NoEmail)
    /\ NoHistory
    /\ UNCHANGED <<storedToken, Authorization, user, loading, boot, path, query,
                   cbPending, loads>>

\* Login's handleForgotPassword up to the await of forgotPassword().
ForgotSubmit ==
    /\ View = "Login"
    /\ ~cbPending
    /\ ~formLoading
    /\ BagCardinality(inflight) < MaxInFlight
    /\ formLoading' = TRUE
    /\ inflight' = Add(inflight, Request("forgotForm", UrlOf("forgotPassword"),
                                         NoToken, NoEmail, NoCode, TRUE))
    /\ ev' = Event("ForgotSubmit", "forgotPassword", TRUE, "none", NoToast, 1,
                   NoEmail)
    /\ NoHistory
    /\ UNCHANGED <<storedToken, Authorization, user, loading, boot, path, query,
                   cbPending, loads>>

\* The request of one of the two forms ends: register or forgotPassword
\* returns, and the handler toasts, navigates (a successful registration
\* goes to /login) and runs its finally block.
FormResolve(r, outcome, detail) ==
    /\ ~cbPending
    /\ BagIn(r, inflight)
    /\ r.flow \in {"registerForm", "forgotForm"}
    /\ detail # NoDetail => outcome = "rejected"
    /\ LET fn == IF r.flow = "registerForm" THEN "register" ELSE "forgotPassword"
           success == flowResult(outcome)
           error == IF success = "false" THEN ErrorOr(detail, Fallback(fn))
                    ELSE "none"
           target == IF fn = "register" /\ success = "true" THEN "/login" ELSE path
           s == flowStore(fn, outcome)
           moved == Landing(s.loading, s.user, target) # path
       IN  /\ SetStore(s)
           /\ path' = Landing(s.loading, s.user, target)
           /\ inflight' = IF moved THEN Orphan(Remove(inflight, r))
                          ELSE Remove(inflight, r)
           /\ formLoading' = IF moved THEN FALSE ELSE settled(r.live, formLoading)
           /\ ev' = [Event("FormResolve", fn, outcome = "2xx", success,
                           IF success = "true"
                           THEN (IF fn = "register"
                                 THEN "Account created. Please log in."
                                 ELSE "message")
                           ELSE error,
                           0, NoEmail)
                     EXCEPT !.error = error, !.detail = detail,
                            !.reached = (outcome # "network")]
    /\ NoHistory
    /\ UNCHANGED <<boot, query, cbPending, loads>>

\* The Google button of Login: handleGoogleSignIn runs to its end in one
\* task, since loginWithGoogle awaits nothing.  The document is replaced
\* afterwards (PageLoad), when the browser has followed the redirect.
GoogleSignIn(redirected) ==
    /\ View = "Login"
    /\ ~cbPending
    /\ ~formLoading
    /\ LET success == loginWithGoogle(redirected)
       IN  ev' = Event("GoogleSignIn", "oauth", redirected, success,
                       googleSignInToast(success), 0, NoEmail)
    /\ formLoading' = settled(TRUE, TRUE)
    /\ NoHistory
    /\ UNCHANGED <<storedToken, Authorization, user, loading, boot, path, query,
                   cbPending, inflight, loads>>

\* Dashboard's useQuery issues GET /users/stats with the header of the
\* moment.  Its response is cached by react-query and touches nothing of
\* the session, so the request is not followed further.
ProtectedFetch ==
    /\ View = "Layout"
    /\ ~cbPending
    /\ ev' = Event("ProtectedFetch", "data", TRUE, "none", NoToast, 1, NoEmail)
    /\ NoHistory
    /\ UNCHANGED <<storedToken, Authorization, user, loading, boot, path, query,
                   formLoading, cbPending, inflight, loads>>

Next ==
    \/ Bootstrap
    \/ \E r \in BagToSet(inflight), ok \in BOOLEAN : FetchUserResolve(r, ok)
    \/ \E email \in Emails : LoginSubmit(email)
    \/ \E r \in BagToSet(inflight), ok \in BOOLEAN,
          access_token \in Tokens \cup {NoToken}, detail \in Details :
            LoginPostResolve(r, ok, access_token, detail)
    \/ CallbackEffect
    \/ \E r \in BagToSet(inflight), ok \in BOOLEAN,
          access_token \in Tokens \cup {NoToken}, is_new_user \in BOOLEAN,
          detail \in Details :
            ExchangeResolve(r, ok, access_token, is_new_user, detail)
    \/ Logout
    \/ \E p \in Paths, q \in Codes \cup {NoCode} : Navigate(p, q)
    \/ \E p \in Paths, q \in Codes \cup {NoCode} : PageLoad(p, q)
    \/ ProtectedFetch
    \/ RegisterSubmit
    \/ ForgotSubmit
    \/ \E r \in BagToSet(inflight), outcome \in Outcomes, detail \in Details :
            FormResolve(r, outcome, detail)
    \/ \E redirected \in BOOLEAN : GoogleSignIn(redirected)

Spec == Init /\ [][Next]_vars

-----------------------------------------------------------------------------
(* AuthProvider as any consumer of the context may drive it.  App mounts   *)
(* no page that calls sendVerificationCode, verifyCode,                    *)
(* signupWithVerification, resetPassword or verifyResetToken, and shows    *)
(* the logout button only to a published user; here the functions of the   *)
(* context value are called directly, in any state the provider lets its   *)
(* children render in.                                                     *)

InitApi == Init /\ path = "/login" /\ query = NoCode

\* login(email, password) up to the await of POST /auth/login.
CallLogin(email) ==
    /\ ~loading
    /\ ~cbPending
    /\ BagCardinality(inflight) < MaxCalls
    /\ inflight' = Add(inflight, Request("login", "/auth/login", NoToken,
                                         email, NoCode, FALSE))
    /\ ev' = Event("CallLogin", "login", TRUE, "none", NoToast, 1, email)
    /\ NoHistory
    /\ UNCHANGED <<storedToken, Authorization, user, loading, boot, path, query,
                   formLoading, cbPending, loads>>

\* handleGoogleCallback(code, state) up to the await of the exchange.
CallHandleGoogleCallback(code) ==
    /\ ~loading
    /\ ~cbPending
    /\ BagCardinality(inflight) < MaxCalls
    /\ inflight' = Add(inflight, Request("oauth", "/auth/google/google/callback",
                                         NoToken, NoEmail, code, FALSE))
    /\ ev' = [Event("CallHandleGoogleCallback", "oauth", TRUE, "none", NoToast,
                    1, NoEmail) EXCEPT !.arg = code]
    /\ NoHistory
    /\ UNCHANGED <<storedToken, Authorization, user, loading, boot, path, query,
                   formLoading, cbPending, loads>>

\* logout().
CallLogout ==
    /\ ~loading
    /\ ~cbPending
    /\ LET s == logout
       IN  /\ SetStore(s)
           /\ path' = Landing(s.loading, s.user, path)
    /\ ev' = [Event("CallLogout", "logout", TRUE, "none", NoToast, 0, NoEmail)
              EXCEPT !.wasOut = (storedToken = NoToken /\ Authorization = NoToken
                                 /\ user = NoUser)]
    /\ NoHistory
    /\ UNCHANGED <<boot, query, formLoading, cbPending, inflight, loads>>

\* One of the functions of lines 95-200 up to its await.
CallFlow(fn, arg) ==
    /\ ~loading
    /\ ~cbPending
    /\ arg \in ArgsOf(fn)
    /\ BagCardinality(inflight) < MaxCalls
    /\ inflight' = Add(inflight, Request(fn, UrlOf(fn), NoToken, NoEmail, arg,
                                         FALSE))
    /\ ev' = [Event("CallFlow", fn, TRUE, "none", NoToast, 1, NoEmail)
              EXCEPT !.arg = arg]
    /\ NoHistory
    /\ UNCHANGED <<storedToken, Authorization, user, loading, boot, path, query,
                   formLoading, cbPending, loads>>

\* The response of such a request arrives, or the request fails: the
\* function returns its result.
FlowResolve(r, outcome, detail) ==
    /\ ~cbPending
    /\ BagIn(r, inflight)
    /\ r.flow \in Flows
    /\ detail # NoDetail => outcome = "rejected"
    /\ (r.flow = "resetPassword" /\ outcome = "2xx") => resetAccepts(r.code)
    /\ resetUsed' = resetConsume(r.flow, outcome, r.code)
    /\ SetStore(flowStore(r.flow, outcome))
    /\ inflight' = Remove(inflight, r)
    /\ LET success == flowResult(outcome)
       IN  ev' = [Event("FlowResolve", r.flow, outcome = "2xx", success, NoToast,
                        0, NoEmail)
                  EXCEPT !.error = IF success = "false"
                                   THEN ErrorOr(detail, Fallback(r.flow))
                                   ELSE "none",
                         !.detail = detail,
                         !.reached = (outcome # "network"),
                         !.arg = r.code]
    /\ logoutTrail' = "none"
    /\ reloadCred' = NoToken
    /\ dbl' = NoDbl
    /\ UNCHANGED <<boot, path, query, formLoading, cbPending, loads, loginCred>>

NextApi ==
    \/ Bootstrap
    \/ \E email \in Emails : CallLogin(email)
    \/ \E r \in BagToSet(inflight), ok \in BOOLEAN,
          access_token \in Tokens \cup {NoToken}, detail \in Details :
            LoginPostResolve(r, ok, access_token, detail)
    \/ \E r \in BagToSet(inflight), ok \in BOOLEAN : FetchUserResolve(r, ok)
    \/ \E code \in Codes : CallHandleGoogleCallback(code)
    \/ \E r \in BagToSet(inflight), ok \in BOOLEAN,
          access_token \in Tokens \cup {NoToken}, is_new_user \in BOOLEAN,
          detail \in Details :
            ExchangeResolve(r, ok, access_token, is_new_user, detail)
    \/ CallLogout
    \/ \E fn \in Flows, arg \in ResetTokens \cup {NoCode} : CallFlow(fn, arg)
    \/ \E r \in BagToSet(inflight), outcome \in Outcomes, detail \in Details :
            FlowResolve(r, outcome, detail)

SpecApi == InitApi /\ [][NextApi]_vars

TypeOK ==
    /\ storedToken \in Tokens \cup {NoToken}
    /\ Authorization \in Tokens \cup {NoToken}
    /\ user \in {NoUser} \cup {ProfileOf(t) : t \in Tokens}
    /\ loading \in BOOLEAN
    /\ boot \in {"pending", "done"}
    /\ path \in Paths
    /\ BagCardinality(inflight) <= MaxInFlight + MaxCalls
    /\ ElementAt(loading, user, path) # "Navigate"
    /\ resetUsed \subseteq ResetTokens
    /\ dbl.phase \in {"none", "one", "two", "left", "done"}

-----------------------------------------------------------------------------
(* Properties *)

LoginResolved == ev.op = "FetchUserResolve" /\ ev.flow = "login"
BootFetchResolved == ev.op = "FetchUserResolve" /\ ev.flow = "boot"

\* No flow has a request outstanding and no effect is waiting to run.
Quiescent == boot = "done" /\ ~cbPending /\ FlowRequests = {}

HasCredential == storedToken # NoToken /\ Authorization = storedToken
Unauthenticated == storedToken = NoToken /\ Authorization = NoToken /\ user = NoUser

\* C1: whenever login resolves to {success: true}, the store holds a
\* persisted credential, the same credential on the transport, and a
\* profile whose email is the one that was logged in.
C1_LoginSuccessHoldsSession ==
    (LoginResolved /\ ev.success = "true") =>
        /\ HasCredential
        /\ user # NoUser
        /\ user.email = ev.email

\* C2: when /auth/login succeeds and the /auth/me that follows fails, login
\* resolves to {success: false, error} and leaves no partial session.
C2_ProfileFailureIsFlowError ==
    (LoginResolved /\ ~ev.ok) =>
        /\ ev.success = "false"
        /\ Unauthenticated

\* C3: whenever no request of a flow is outstanding, the store holds a
\* credential (persisted and attached) exactly when it holds a user.
C3_CredentialIffProfile ==
    Quiescent => (HasCredential <=> user # NoUser)

\* C4: once bootstrap has read client storage, the persisted credential is
\* absent or equal to the one attached to the transport, and the transport
\* carries none while none is persisted.
C4_PersistedMatchesTransport ==
    boot = "done" =>
        /\ storedToken = NoToken \/ storedToken = Authorization
        /\ storedToken = NoToken => Authorization = NoToken

\* A profile fetch has just failed while another flow is still outstanding.
C4_Witness ==
    /\ boot = "done"
    /\ ev.op = "FetchUserResolve" /\ ~ev.ok
    /\ FlowRequests # {}

\* C5: logout is one synchronous step that issues no request and leaves no
\* persisted credential, no attached credential and no user, from every
\* state.
C5_LogoutClearsSynchronously ==
    [][ev'.op = "Logout" =>
          /\ storedToken' = NoToken
          /\ Authorization' = NoToken
          /\ user' = NoUser
          /\ ev'.net = 0
          /\ BagCardinality(inflight') = BagCardinality(inflight)]_vars

\* logout has just returned while another flow has a request in flight.
C5_Witness ==
    ev.op = "Logout" /\ FlowRequests # {}

\* C6: when the bootstrap profile fetch fails, the persisted credential is
\* removed, the header detached, the user is null, the startup gate is open
\* and nothing is shown to the user.
C6_BootstrapFailureFallsBack ==
    (BootFetchResolved /\ ~ev.ok) =>
        /\ Unauthenticated
        /\ ~loading
        /\ ev.toast = NoToast

C6_Witness ==
    BootFetchResolved /\ ~ev.ok

\* C7: while the loading flag is true App renders no route, no flow and no
\* protected fetch is started, and the gate opens only once bootstrap has
\* published the user or cleared the credential.
C7_GateBlocksFlows ==
    [][/\ loading => View = "Spinner"
       /\ loading => \/ ev'.op \in {"Bootstrap", "PageLoad"}
                     \/ ev'.op = "FetchUserResolve" /\ ev'.flow = "boot"
       /\ (loading /\ ~loading') =>
              \/ user' # NoUser
              \/ storedToken' = NoToken /\ Authorization' = NoToken]_vars

\* Bootstrap is waiting for its profile fetch at a protected location.
C7_Witness ==
    /\ loading /\ boot = "done"
    /\ inflight # EmptyBag
    /\ path \in ProtectedPaths

\* C8: a session produced by login, reloaded with its credential still
\* persisted and accepted by the backend, is reproduced by bootstrap.
C8_BootstrapRoundTrip ==
    (BootFetchResolved /\ ev.ok /\ reloadCred # NoToken) =>
        /\ storedToken = reloadCred
        /\ Authorization = reloadCred
        /\ user = ProfileOf(reloadCred)
        /\ ~loading

C8_Witness ==
    BootFetchResolved /\ ev.ok /\ reloadCred # NoToken

\* C9: logout followed by a reload and bootstrap ends unauthenticated, with
\* an unauthenticated route shown.
C9_LogoutThenBootstrap ==
    (logoutTrail = "reload" /\ boot = "done") =>
        /\ Unauthenticated
        /\ ~loading
        /\ View \in {"Login", "Register", "GoogleCallback"}

C9_Witness ==
    logoutTrail = "reload" /\ boot = "done"

\* C10: with no credential persisted at startup, bootstrap issues no
\* request, attaches nothing and opens the gate at once with user null.
C10_BootstrapWithoutCredential ==
    (ev.op = "Bootstrap" /\ storedToken = NoToken) =>
        /\ ev.net = 0
        /\ inflight = EmptyBag
        /\ Authorization = NoToken
        /\ user = NoUser
        /\ ~loading

C10_Witness ==
    ev.op = "Bootstrap" /\ storedToken = NoToken

\* C11: logout called with no persisted credential, no attached credential
\* and user null changes nothing and raises nothing, and a logout that
\* follows a logout leaves the store as the first one left it.
C11_LogoutIdempotent ==
    [][ev'.op = "CallLogout" =>
          /\ Unauthenticated =>
                 /\ UNCHANGED <<storedToken, Authorization, user, loading,
                                path, inflight>>
                 /\ ev'.success # "throw"
          /\ ev.op = "CallLogout" =>
                 UNCHANGED <<storedToken, Authorization, user, loading>>]_vars

\* logout has returned from a call made on the unauthenticated store.
C11_Witness ==
    /\ ev.op = "CallLogout"
    /\ ev.wasOut
    /\ Unauthenticated

\* C12: when two login calls with the same email overlap, the store after
\* both have resolved is what one of them would have left alone: either
\* nothing, or a whole session of that account; never a user without a
\* credential or a credential without a user.
C12_DoubleLoginLeavesOneOutcome ==
    (dbl.phase = "done" /\ dbl.second = "login") =>
        \/ Unauthenticated
        \/ /\ HasCredential
           /\ Owner(storedToken) = dbl.email
           /\ user = ProfileOf(storedToken)

\* C13: when POST /auth/login fails, login returns {success: false, error}
\* with the backend's detail if it sent one and 'Login failed' otherwise,
\* throws nothing, and leaves the persisted credential, the header and the
\* user as they were.
C13_LoginRejectionLeavesStore ==
    [][(ev'.op = "LoginPostResolve" /\ ~ev'.ok) =>
          /\ ev'.success = "false"
          /\ ev'.error = IF ev'.detail # NoDetail THEN ev'.detail ELSE "Login failed"
          /\ UNCHANGED <<storedToken, Authorization, user>>
          /\ Unauthenticated => Unauthenticated']_vars

\* A rejected login has returned while the store holds a session that
\* another flow adopted in the meantime.
C13_Witness ==
    /\ ev.op = "LoginPostResolve" /\ ~ev.ok
    /\ ev.detail # NoDetail
    /\ HasCredential /\ user # NoUser

\* The message a flow function falls back to when the backend sent none.
GenericError ==
    IF ev.flow = "login" THEN "Login failed"
    ELSE IF ev.flow = "oauth" THEN "Google authentication failed"
    ELSE Fallback(ev.flow)

\* A flow function has just returned its result to the caller.
Returned ==
    \/ ev.op \in {"FlowResolve", "ExchangeResolve"}
    \/ ev.op = "LoginPostResolve" /\ ~ev.ok
    \/ LoginResolved

\* C14: whatever the backend or the network did, each of login, register,
\* handleGoogleCallback, sendVerificationCode, verifyCode,
\* signupWithVerification, forgotPassword, verifyResetToken and
\* resetPassword returns a value whose success is true, or false with an
\* error that is the backend's detail when it sent one and the function's
\* fallback otherwise; none throws.
C14_FlowsReturnResult ==
    Returned =>
        \/ ev.success = "true"
        \/ /\ ev.success = "false"
           /\ ev.error = IF ev.detail # NoDetail THEN ev.detail ELSE GenericError

\* verifyCode has returned after a request that never got an answer.
C14_Witness ==
    /\ ev.op = "FlowResolve" /\ ev.flow = "verifyCode"
    /\ ~ev.reached
    /\ ev.error = "Invalid verification code"

\* C15: when the callback location carries no code, GoogleCallback sends
\* nothing to the exchange endpoint, shows an error, and leaves the persisted
\* credential, the header and the user as they were.
C15_MissingCodeNoExchange ==
    [][(ev'.op = "CallbackEffect" /\ query = NoCode) =>
          /\ ev'.net = 0
          /\ BagCardinality(inflight') = BagCardinality(inflight)
          /\ ~ev'.ok
          /\ ev'.toast = "Authorization failed"
          /\ UNCHANGED <<storedToken, Authorization, user>>]_vars

\* The effect has run on a callback location without a code.
C15_Witness ==
    /\ ev.op = "CallbackEffect" /\ ~ev.ok
    /\ query = NoCode
    /\ path = "/login"

\* C16: when the exchange answers {access_token, user, is_new_user},
\* handleGoogleCallback persists the credential, attaches it and publishes
\* the returned user in the step the response arrives in, sends no
\* /auth/me, and returns success with the backend's is_new_user.
C16_ExchangeAdoptsInline ==
    [][(ev'.op = "ExchangeResolve" /\ ev'.ok) =>
          /\ storedToken' \in Tokens
          /\ Owner(storedToken') = ev'.email
          /\ Authorization' = storedToken'
          /\ user' = ProfileOf(storedToken')
          /\ ev'.net = 0
          /\ BagCardinality(inflight') = BagCardinality(inflight) - 1
          /\ ev'.success = "true"
          /\ ev'.is_new_user = ev'.flag]_vars

\* The exchange has signed a first-time account in.
C16_Witness ==
    /\ ev.op = "ExchangeResolve" /\ ev.ok
    /\ ev.flag
    /\ user # NoUser
    /\ path = "/dashboard"

\* The callback view is shown only while its effect is still to run or its
\* exchange is still awaited.
CallbackBusy ==
    View = "GoogleCallback" =>
        \/ cbPending
        \/ \E r \in BagToSet(inflight) : r.flow = "oauth" /\ r.live

\* A visit to the callback location has just ended in failure: no code, or
\* the exchange was rejected.
CallbackFailed(e) == e.op \in {"CallbackEffect", "ExchangeResolve"} /\ ~e.ok

\* C17 as stated: a visit to the callback location leaves it in the step
\* that finds no code or receives the answer of the exchange, for /login
\* with an error shown on every failure and for /dashboard on success, and
\* the callback view is never shown with nothing pending.
C17_CallbackLeavesForLogin ==
    [][/\ (ev'.op = "ExchangeResolve" /\ ev'.ok) => path' = "/dashboard"
       /\ CallbackFailed(ev') => ev'.toast # NoToast /\ path' = "/login"
       /\ CallbackBusy']_vars

\* C17, amended: on a failure the visit navigates to /login with an error
\* shown, and App sends that on to /dashboard when a user is already
\* published; on success it ends on /dashboard; the callback view is never
\* shown with nothing pending.
C17_CallbackLeaves ==
    [][/\ (ev'.op = "ExchangeResolve" /\ ev'.ok) => path' = "/dashboard"
       /\ CallbackFailed(ev') =>
              /\ ev'.toast # NoToast
              /\ path' = IF user' = NoUser THEN "/login" ELSE "/dashboard"
       /\ CallbackBusy']_vars

\* The exchange was rejected while a user was already published.
C17_Witness ==
    /\ ev.op = "ExchangeResolve" /\ ~ev.ok
    /\ user # NoUser
    /\ path = "/dashboard"

\* C18: register, signupWithVerification, sendVerificationCode, verifyCode,
\* forgotPassword, verifyResetToken and resetPassword leave the persisted
\* credential, the header and the user as they were, when called and when
\* they return, whether they succeed or fail.
C18_FlowsLeaveSession ==
    [][ev'.op \in {"CallFlow", "FlowResolve"} =>
          UNCHANGED <<storedToken, Authorization, user>>]_vars

\* A registration has succeeded and the store is still unauthenticated.
C18_Witness ==
    /\ ev.op = "FlowResolve" /\ ev.flow = "register"
    /\ ev.success = "true"
    /\ Unauthenticated

\* C19: forgotPassword returns {success: true} whenever the backend
\* answered, whatever it answered, and a failure only when the request got
\* no answer.
C19_ResetRequestHidesAnswer ==
    (ev.op = "FlowResolve" /\ ev.flow = "forgotPassword") =>
        (ev.success = "true" <=> ev.reached)

\* C20: once resetPassword has returned success for a token, every later
\* resetPassword with that token returns {success: false}.  (A token is
\* in resetUsed exactly when a resetPassword with it has returned success.)
C20_ResetTokenSingleUse ==
    [][(/\ ev'.op = "FlowResolve" /\ ev'.flow = "resetPassword"
        /\ ev'.arg \in resetUsed) =>
          /\ ev'.success = "false"
          /\ ev'.error # "none"]_vars

\* A second resetPassword with a consumed token has been turned down.
C20_Witness ==
    /\ ev.op = "FlowResolve" /\ ev.flow = "resetPassword"
    /\ ev.success = "false"
    /\ ev.reached
    /\ ev.arg \in resetUsed

\* C21: the Layout subtree is rendered only while the store holds a user
\* together with a credential attached to the transport, and once logout
\* or a flow has left the store unauthenticated it is not rendered and the
\* location is not a protected one.
C21_ProtectedNeedsSession ==
    /\ View = "Layout" => user # NoUser /\ Authorization # NoToken
    /\ (~loading /\ Unauthenticated) =>
           View # "Layout" /\ path \notin ProtectedPaths

\* C22: whenever a profile fetch fails, the persisted credential, the
\* attached credential and the published user are all gone afterwards,
\* whatever user was published before.
C22_RejectedFetchDestroysSession ==
    (ev.op = "FetchUserResolve" /\ ~ev.ok) => Unauthenticated

\* C23: when a password login and a callback exchange overlap, then once
\* both have resolved the credential in the store and the published user
\* belong together: the store never holds the credential one flow adopted
\* with the profile the other one fetched.
C23_FlowsDoNotMix ==
    (dbl.phase = "done" /\ dbl.second = "oauth") =>
        ((storedToken # NoToken /\ user # NoUser) =>
            /\ Authorization = storedToken
            /\ user = ProfileOf(storedToken))

\* The store holds a whole session: a credential, persisted and attached,
\* and the profile of its account.
WholeSession == HasCredential /\ user = ProfileOf(storedToken)

\* C24: when logout is called while a login awaits its profile fetch or an
\* exchange is pending, the store after the outstanding request has resolved
\* is either unauthenticated or a whole session, never a user without a
\* credential.
C24_LogoutDuringFlow ==
    [][(/\ ev.op = "Logout"
        /\ ev'.op \in {"FetchUserResolve", "ExchangeResolve"}
        /\ FlowRequests' = {}) =>
          (Unauthenticated \/ WholeSession)']_vars

MeRequests(bag) == {r \in BagToSet(bag) : r.url = "/auth/me"}
MeCount(bag) == BagCardinality([r \in MeRequests(bag) |-> CopiesIn(r, bag)])

\* C25: a /auth/me request is sent only by bootstrap and by login, carries
\* the credential that is attached and persisted at that moment, and in
\* login is sent in the step in which /auth/login answered and the
\* credential was stored; none is ever sent without a credential.
C25_FetchAfterAttach ==
    [][/\ \A r \in MeRequests(inflight') : r.hdr # NoToken
       /\ MeCount(inflight') > MeCount(inflight) =>
              /\ ev'.op \in {"Bootstrap", "LoginPostResolve"}
              /\ Authorization' # NoToken
              /\ storedToken' = Authorization'
              /\ \E r \in MeRequests(inflight') : r.hdr = Authorization'
              /\ ev'.op = "LoginPostResolve" =>
                     /\ ev'.ok
                     /\ \E q \in BagToSet(inflight) :
                            /\ q.url = "/auth/login"
                            /\ CopiesIn(q, inflight') < CopiesIn(q, inflight)]_vars

\* login has stored its credential and its profile fetch is on its way.
C25_Witness ==
    /\ ev.op = "LoginPostResolve" /\ ev.ok
    /\ \E r \in MeRequests(inflight) : r.flow = "login" /\ r.hdr = Authorization
    /\ user = NoUser

\* The requests a form's submission awaits.
FormRequests(bag) ==
    {r \in BagToSet(bag) : r.flow \in {"login", "registerForm", "forgotForm"}}

\* The mounted form has a submission in flight.
LiveSubmission(bag) == \E r \in FormRequests(bag) : r.live

\* The flow a form control starts.
StartedBy(op) ==
    IF op = "LoginSubmit" THEN "login"
    ELSE IF op = "RegisterSubmit" THEN "registerForm"
    ELSE "forgotForm"

\* C26 as stated: the controls of Login and Register are disabled exactly
\* while a submission of the form is in flight, so they are enabled again
\* once it has resolved, and no flow is started from them while an earlier
\* call of the same flow has not resolved.
C26_NoSecondSubmission ==
    [][/\ formLoading' <=> LiveSubmission(inflight')
       /\ ev'.op \in {"LoginSubmit", "RegisterSubmit", "ForgotSubmit"} =>
              \A r \in FormRequests(inflight) : r.flow # StartedBy(ev'.op)]_vars

\* C26, amended: the controls of the mounted Login or Register form are
\* disabled exactly while a submission of that form is in flight, so they
\* are enabled again once it has resolved, and no flow is started from a
\* form while a submission of that same mounted form has not resolved.  (A
\* form mounted anew starts enabled, whatever an earlier one still awaits.)
C26_FormGuardsItsSubmission ==
    [][/\ formLoading' <=> LiveSubmission(inflight')
       /\ ev'.op \in {"LoginSubmit", "RegisterSubmit", "ForgotSubmit",
                      "GoogleSignIn"} =>
              ~formLoading /\ ~LiveSubmission(inflight)]_vars

\* A registration was turned down and the Register form, still mounted, is
\* enabled again.
C26_Witness ==
    /\ ev.op = "FormResolve" /\ ev.flow = "register"
    /\ ev.success = "false"
    /\ View = "Register"
    /\ ~formLoading

\* C27: when the Google button has issued the redirect without error, no
\* failure is shown; 'Google sign-in failed' or 'Google login failed' is
\* shown only when issuing the redirect failed.
C27_RedirectIsNotAFailure ==
    ev.op = "GoogleSignIn" =>
        /\ ev.ok => ev.toast = NoToast
        /\ ev.toast # NoToast => ~ev.ok

\* A step that opens a visit to the callback location: the page is mounted
\* by the first render after the startup gate, or the router has moved.
OpensVisit(e) ==
    \/ e.op \in {"Bootstrap", "Navigate"}
    \/ e.op = "FetchUserResolve" /\ e.flow = "boot"

BootOutstanding ==
    \/ boot = "pending"
    \/ \E r \in BagToSet(inflight) : r.flow = "boot"

C29_GateOpensOnce ==
    /\ [](loading <=> BootOutstanding)
    /\ [][(~loading /\ loading') => ev'.op = "PageLoad"]_vars

C29_Witness ==
    /\ ev.op = "FetchUserResolve" /\ ev.flow = "login"
    /\ ~loading
    /\ boot = "done"
    /\ reloadCred = NoToken
    /\ loads > 0

\* C30: when the callback exchange is rejected or fails in transport, OAuth
\* complete resolves to {success: false, error}, error being the detail of
\* the response or 'Google authentication failed', and the persisted
\* credential, the attached credential and the published user are what
\* they were before the response arrived.
C30_RejectedExchangeKeepsSession ==
    [][(ev'.op = "ExchangeResolve" /\ ~ev'.ok) =>
          /\ ev'.success = "false"
          /\ ev'.error = (IF ev'.detail # NoDetail THEN ev'.detail
                          ELSE "Google authentication failed")
          /\ UNCHANGED <<storedToken, Authorization, user>>]_vars

C30_Witness ==
    /\ ev.op = "ExchangeResolve" /\ ~ev.ok
    /\ ev.success = "false"
    /\ storedToken # NoToken /\ Authorization = storedToken
    /\ user = ProfileOf(storedToken)

====
